---- MODULE Spec2Model ----
(***************************************************************************)
(* The room registry and room state machine of the Teen Patti pool server  *)
(* (src/server.js).  Every socket.io handler runs to completion on the     *)
(* single Node.js event loop, so each handler, and the disconnect timer's  *)
(* callback, is one atomic action.                                         *)
(*                                                                         *)
(* Indices are the code's: currentTurn is 0-based; players[i] of the code  *)
(* is room.players[i + 1] here.  findIndex answers -1 for "not found".     *)
(* null / undefined is 0 for a player id and "" for a room code.           *)
(***************************************************************************)
EXTENDS Integers, Sequences, FiniteSets, TLC

VARIABLES
    rooms,      \* the Map `rooms`, in insertion order: a sequence of rooms
    sockets,    \* per connection: connected, socket.playerId, socket.roomCode,
                \* and the socket.io rooms it has joined
    timers,     \* pending disconnect timers, in the order they were set
    idCount,    \* how many player ids generatePlayerId has handed out
    reply,      \* what the last handler emitted and logged; snapshot is the
                \* room object as it is when roomUpdate is emitted, if it is
    bidSum,     \* per room code: sum of accepted bids since the last settlement
    bidCount,   \* per room code: number of accepted bids since the last settlement
    removedIds  \* the ids of the participants removed so far by leaveRoom,
                \* removePlayer or the disconnect timer

vars == <<rooms, sockets, timers, idCount, reply, bidSum, bidCount, removedIds>>

----------------------------------------------------------------------------
(* Bounds of the model *)

\* player ids generatePlayerId can hand out in one run
MaxIds == 3
\* handlers that would start a round beyond this one are not taken
MaxRound == 2
\* the starting balance a creator asks for, and the largest valid bid offered
MaxStart == 1

\* the codes generateRoomCode can draw
Codes == {"1000", "1001"}
\* connection ids
Sockets == {"s1", "s2"}
\* the name the k-th user to get a player id goes by
UserNames == <<"a", "b", "c", "d", "e">>
\* names typed with createRoom and joinRoom by the next user to get an id:
\* the user's own name, the first user's name in capitals, or none
NameInputs == {UserNames[idCount + 1], "A", ""}
\* every name a user can type
Names == {UserNames[k] : k \in 1 .. Len(UserNames)} \cup {"A"}
\* names sent with rejoinRoom (the name only reaches the log)
RejoinNames == {"a", ""}
\* room codes typed by users: "12" is malformed, "" is missing
CodeInputs == Codes \cup {"12", ""}
\* amount fields sent with placeBid
BidInputs == -1 .. (MaxStart + 1)
\* player ids sent by clients: 0 is the missing id
IdInputs == 0 .. MaxIds

----------------------------------------------------------------------------
(* Helpers standing for JavaScript built-ins *)

\* a case folding that folds nothing
toLowerCaseKeepsCase(n) == n

\* String.prototype.toLowerCase on the names of the model
toLowerCase(n) == IF n = "A" THEN "a" ELSE n

\* parseInt(startingBalance) || 1000: a falsy result (0, NaN) gives 1000
parseStartingBalance(x) == IF x = 0 THEN 1000 ELSE x

\* Array.prototype.findIndex over players by id: 0-based, -1 when absent
findIndexById(players, id) ==
    IF \E i \in 1 .. Len(players) : players[i].id = id
    THEN (CHOOSE i \in 1 .. Len(players) :
              /\ players[i].id = id
              /\ \A j \in 1 .. (i - 1) : players[j].id # id) - 1
    ELSE -1

\* Array.prototype.findIndex over players by socketId
findIndexBySocket(players, sid) ==
    IF \E i \in 1 .. Len(players) : players[i].socketId = sid
    THEN (CHOOSE i \in 1 .. Len(players) :
              /\ players[i].socketId = sid
              /\ \A j \in 1 .. (i - 1) : players[j].socketId # sid) - 1
    ELSE -1

\* Array.prototype.splice(index, 1)
splice(players, index) ==
    SubSeq(players, 1, index) \o SubSeq(players, index + 2, Len(players))

\* rooms.get(code): position of the room in the Map, 0 when absent
roomPos(rs, code) ==
    IF \E i \in 1 .. Len(rs) : rs[i].code = code
    THEN CHOOSE i \in 1 .. Len(rs) : rs[i].code = code
    ELSE 0

\* a set that empties the Map first
roomsSetAlone(rs, room) == <<room>>

\* rooms.set(code, room): an existing key keeps its place, a new key goes last
roomsSet(rs, room) ==
    IF roomPos(rs, room.code) = 0
    THEN Append(rs, room)
    ELSE [rs EXCEPT ![roomPos(rs, room.code)] = room]

\* a delete that empties the room and leaves it in the Map
roomsDeleteKeepsEmpty(rs, code) ==
    IF roomPos(rs, code) = 0
    THEN rs
    ELSE [rs EXCEPT ![roomPos(rs, code)].players = <<>>]

\* rooms.delete(code)
roomsDelete(rs, code) ==
    IF roomPos(rs, code) = 0
    THEN rs
    ELSE SubSeq(rs, 1, roomPos(rs, code) - 1)
             \o SubSeq(rs, roomPos(rs, code) + 1, Len(rs))

\* io.to(roomCode): the connected sockets that joined the socket.io room
ioTo(socks, code) ==
    {s \in Sockets : socks[s].connected /\ code \in socks[s].joined}

\* the socket's fields after socket.join(roomCode); socket.playerId = ...;
\* socket.roomCode = ...
bindSocket(socks, s, code, playerId) ==
    [socks EXCEPT ![s] = [@ EXCEPT !.joined = @ \cup {code},
                                   !.playerId = playerId,
                                   !.roomCode = code]]

----------------------------------------------------------------------------
(* Turn scheduling *)

\* the while loops of moveToNextActivePlayer and ensureActiveTurn
RECURSIVE skipPacked(_, _, _)
skipPacked(players, turn, attempts) ==
    IF players[turn + 1].packed /\ attempts < Len(players)
    THEN skipPacked(players, (turn + 1) % Len(players), attempts + 1)
    ELSE [turn |-> turn, attempts |-> attempts]

\* the for loops that follow them: the first player not packed, or the turn
\* as the while loop left it
firstActive(players, turn) ==
    IF \E i \in 1 .. Len(players) : ~players[i].packed
    THEN (CHOOSE i \in 1 .. Len(players) :
              /\ ~players[i].packed
              /\ \A j \in 1 .. (i - 1) : players[j].packed) - 1
    ELSE turn

\* a turn advance that takes the next seat, packed or not
moveToNextPlayer(room) ==
    IF Len(room.players) = 0
    THEN room
    ELSE [room EXCEPT !.currentTurn = (@ + 1) % Len(room.players)]

moveToNextActivePlayer(room) ==
    IF Len(room.players) = 0
    THEN room
    ELSE LET totalPlayers == Len(room.players)
             r == skipPacked(room.players,
                             (room.currentTurn + 1) % totalPlayers, 0)
         IN  [room EXCEPT !.currentTurn =
                 IF r.attempts >= totalPlayers
                 THEN firstActive(room.players, r.turn)
                 ELSE r.turn]

ensureActiveTurn(room) ==
    IF Len(room.players) = 0
    THEN room
    ELSE IF /\ room.currentTurn < Len(room.players)
            /\ room.players[room.currentTurn + 1].packed
         THEN LET r == skipPacked(room.players, room.currentTurn, 0)
              IN  [room EXCEPT !.currentTurn =
                      IF r.attempts >= Len(room.players)
                      THEN firstActive(room.players, r.turn)
                      ELSE r.turn]
         ELSE room

----------------------------------------------------------------------------
(* What a handler emits *)

\* a directed error and nothing else
errorReply(e) ==
    [err |-> e, events |-> {}, to |-> {}, log |-> <<>>, snapshot |-> <<>>]

\* a handler that returns before it touches anything
Fail(e) ==
    /\ reply' = errorReply(e)
    /\ UNCHANGED <<rooms, sockets, timers, idCount, bidSum, bidCount, removedIds>>

\* a handler that returns silently
Return == Fail("")

----------------------------------------------------------------------------
(* Handlers *)

Init ==
    /\ rooms = <<>>
    /\ sockets = [s \in Sockets |->
                     [connected |-> TRUE, playerId |-> 0, roomCode |-> "",
                      joined |-> {}]]
    /\ timers = <<>>
    /\ idCount = 0
    /\ reply = errorReply("")
    /\ bidSum = [c \in Codes |-> 0]
    /\ bidCount = [c \in Codes |-> 0]
    /\ removedIds = {}

\* the room object createRoom builds
newRoom(roomCode, creatorName, startingBalance, playerId, s) ==
    [code |-> roomCode,
     creator |-> creatorName,
     startingBalance |-> parseStartingBalance(startingBalance),
     players |-> <<[id |-> playerId,
                    socketId |-> s,
                    name |-> creatorName,
                    balance |-> parseStartingBalance(startingBalance),
                    isCreator |-> TRUE,
                    packed |-> FALSE]>>,
     pool |-> 0,
     currentTurn |-> 0,
     round |-> 1,
     totalBids |-> 0]

\* socket.on('createRoom'); roomCode is what generateRoomCode drew
createRoom(s, creatorName, startingBalance, roomCode) ==
    /\ sockets[s].connected
    /\ IF creatorName = ""
       THEN Fail("InvalidInput")
       ELSE /\ idCount < MaxIds
            /\ rooms' = roomsSet(rooms, newRoom(roomCode, creatorName,
                                                startingBalance, idCount + 1, s))
            /\ sockets' = bindSocket(sockets, s, roomCode, idCount + 1)
            /\ idCount' = idCount + 1
            /\ reply' = [err |-> "", events |-> {"roomCreated"},
                         to |-> {}, log |-> <<"created">>,
                         snapshot |-> <<>>]
            /\ bidSum' = [bidSum EXCEPT ![roomCode] = 0]
            /\ bidCount' = [bidCount EXCEPT ![roomCode] = 0]
            /\ UNCHANGED <<timers, removedIds>>

\* a rejoinRoom that wants the participant's name as well as its id
rejoinRoomByName(s, roomCode, playerId, playerName) ==
    /\ sockets[s].connected
    /\ IF roomCode = "" \/ playerId = 0 \/ playerName = ""
       THEN Fail("InvalidRejoin")
       ELSE IF roomPos(rooms, roomCode) = 0
       THEN Fail("RejoinRoomNotFound")
       ELSE LET pos == roomPos(rooms, roomCode)
                room == rooms[pos]
                idx == findIndexById(room.players, playerId)
            IN  IF idx = -1 \/ room.players[idx + 1].name # playerName
                THEN Fail("RejoinPlayerNotFound")
                ELSE /\ rooms' = [rooms EXCEPT ![pos].players[idx + 1].socketId = s]
                     /\ sockets' = bindSocket(sockets, s, roomCode, playerId)
                     /\ reply' = [err |-> "",
                                  events |-> {"roomRejoined", "roomUpdate"},
                                  to |-> ioTo(sockets', roomCode) \ {s},
                                  log |-> <<"reconnected">>,
                                  snapshot |-> <<rooms'[pos]>>]
                     /\ UNCHANGED <<timers, idCount, bidSum, bidCount, removedIds>>

\* socket.on('rejoinRoom')
rejoinRoom(s, roomCode, playerId, playerName) ==
    /\ sockets[s].connected
    /\ IF roomCode = "" \/ playerId = 0 \/ playerName = ""
       THEN Fail("InvalidRejoin")
       ELSE IF roomPos(rooms, roomCode) = 0
       THEN Fail("RejoinRoomNotFound")
       ELSE LET pos == roomPos(rooms, roomCode)
                room == rooms[pos]
                idx == findIndexById(room.players, playerId)
            IN  IF idx = -1
                THEN Fail("RejoinPlayerNotFound")
                ELSE /\ rooms' = [rooms EXCEPT ![pos].players[idx + 1].socketId = s]
                     /\ sockets' = bindSocket(sockets, s, roomCode, playerId)
                     /\ reply' = [err |-> "",
                                  events |-> {"roomRejoined", "roomUpdate"},
                                  to |-> ioTo(sockets', roomCode) \ {s},
                                  log |-> <<"reconnected">>,
                                  snapshot |-> <<rooms'[pos]>>]
                     /\ UNCHANGED <<timers, idCount, bidSum, bidCount, removedIds>>

\* a player object that gets the default balance, not the room's
newPlayerDefaultBalance(room, playerId, s, playerName) ==
    [id |-> playerId,
     socketId |-> s,
     name |-> playerName,
     balance |-> 1000,
     isCreator |-> FALSE,
     packed |-> FALSE]

\* the player object joinRoom builds
newPlayer(room, playerId, s, playerName) ==
    [id |-> playerId,
     socketId |-> s,
     name |-> playerName,
     balance |-> room.startingBalance,
     isCreator |-> FALSE,
     packed |-> FALSE]

\* a joinRoom that emits roomUpdate before it calls ensureActiveTurn
joinRoomEmitsEarly(s, playerName, roomCode) ==
    /\ sockets[s].connected
    /\ IF playerName = ""
       THEN Fail("InvalidInput")
       ELSE IF roomCode = "" \/ Len(roomCode) # 4
       THEN Fail("InvalidCode")
       ELSE IF roomPos(rooms, roomCode) = 0
       THEN Fail("RoomNotFound")
       ELSE LET pos == roomPos(rooms, roomCode)
                room == rooms[pos]
                joined == [room EXCEPT !.players =
                              Append(@, newPlayer(room, idCount + 1, s, playerName))]
            IN  IF \E i \in 1 .. Len(room.players) :
                       toLowerCase(room.players[i].name) = toLowerCase(playerName)
                THEN Fail("DuplicateName")
                ELSE /\ idCount < MaxIds
                     /\ rooms' = [rooms EXCEPT ![pos] = ensureActiveTurn(joined)]
                     /\ sockets' = bindSocket(sockets, s, roomCode, idCount + 1)
                     /\ idCount' = idCount + 1
                     /\ reply' = [err |-> "",
                                  events |-> {"roomJoined", "roomUpdate"},
                                  to |-> ioTo(sockets', roomCode),
                                  log |-> <<"joined">>,
                                  snapshot |-> <<joined>>]
                     /\ UNCHANGED <<timers, bidSum, bidCount, removedIds>>

\* socket.on('joinRoom')
joinRoom(s, playerName, roomCode) ==
    /\ sockets[s].connected
    /\ IF playerName = ""
       THEN Fail("InvalidInput")
       ELSE IF roomCode = "" \/ Len(roomCode) # 4
       THEN Fail("InvalidCode")
       ELSE IF roomPos(rooms, roomCode) = 0
       THEN Fail("RoomNotFound")
       ELSE LET pos == roomPos(rooms, roomCode)
                room == rooms[pos]
            IN  IF \E i \in 1 .. Len(room.players) :
                       toLowerCase(room.players[i].name) = toLowerCase(playerName)
                THEN Fail("DuplicateName")
                ELSE /\ idCount < MaxIds
                     /\ rooms' = [rooms EXCEPT ![pos] = ensureActiveTurn(
                            [room EXCEPT !.players =
                                Append(@, newPlayer(room, idCount + 1, s, playerName))])]
                     /\ sockets' = bindSocket(sockets, s, roomCode, idCount + 1)
                     /\ idCount' = idCount + 1
                     /\ reply' = [err |-> "",
                                  events |-> {"roomJoined", "roomUpdate"},
                                  to |-> ioTo(sockets', roomCode),
                                  log |-> <<"joined">>,
                                  snapshot |-> <<rooms'[pos]>>]
                     /\ UNCHANGED <<timers, bidSum, bidCount, removedIds>>

\* a bid that debits the bidder and forgets the pool
bidRoomNoCredit(room, playerIndex, amount) ==
    moveToNextActivePlayer(
        [room EXCEPT !.players[playerIndex + 1].balance = @ - amount,
                     !.totalBids = @ + 1])

\* the bid as placeBid applies it to the room, the turn advance included
bidRoom(room, playerIndex, amount) ==
    moveToNextActivePlayer(
        [room EXCEPT !.players[playerIndex + 1].balance = @ - amount,
                     !.pool = @ + amount,
                     !.totalBids = @ + 1])

\* socket.on('placeBid')
placeBid(s, amount) ==
    /\ sockets[s].connected
    /\ LET roomCode == sockets[s].roomCode
           playerId == sockets[s].playerId
           pos == roomPos(rooms, roomCode)
       IN  IF roomCode = "" \/ playerId = 0
           THEN Fail("NotInRoom")
           ELSE IF pos = 0
           THEN Fail("RoomNotFound")
           ELSE LET room == rooms[pos]
                    idx == findIndexById(room.players, playerId)
                IN  IF idx = -1
                    THEN Fail("PlayerNotFound")
                    ELSE IF room.players[room.currentTurn + 1].id # playerId
                    THEN Fail("NotYourTurn")
                    ELSE IF amount = 0 \/ amount <= 0
                    THEN Fail("InvalidAmount")
                    ELSE IF amount > room.players[idx + 1].balance
                    THEN Fail("InsufficientBalance")
                    ELSE /\ rooms' = [rooms EXCEPT ![pos] = bidRoom(room, idx, amount)]
                         /\ reply' = [err |-> "",
                                      events |-> {"bidPlaced", "roomUpdate"},
                                      to |-> ioTo(sockets, roomCode),
                                      log |-> <<"bid">>,
                                      snapshot |-> <<rooms'[pos]>>]
                         /\ bidSum' = [bidSum EXCEPT ![roomCode] = @ + amount]
                         /\ bidCount' = [bidCount EXCEPT ![roomCode] = @ + 1]
                         /\ UNCHANGED <<sockets, timers, idCount, removedIds>>

\* the players not packed, as 1-based positions
activePlayers(room) == {i \in 1 .. Len(room.players) : ~room.players[i].packed}

\* an automatic settlement that hands the next round's first turn to seat 0
autoWinTurnZero(room) ==
    LET w == CHOOSE i \in activePlayers(room) : TRUE
        winAmount == room.pool
    IN  [room EXCEPT
            !.players = [i \in 1 .. Len(room.players) |->
                            [room.players[i] EXCEPT
                                !.balance = IF i = w THEN @ + winAmount ELSE @,
                                !.packed = FALSE]],
            !.pool = 0,
            !.round = @ + 1,
            !.totalBids = 0,
            !.currentTurn = 0]

\* an automatic settlement that leaves totalBids as it finds it
autoWinKeepsCount(room) ==
    LET w == CHOOSE i \in activePlayers(room) : TRUE
        winAmount == room.pool
        winnerIndex == findIndexById(room.players, room.players[w].id)
    IN  [room EXCEPT
            !.players = [i \in 1 .. Len(room.players) |->
                            [room.players[i] EXCEPT
                                !.balance = IF i = w THEN @ + winAmount ELSE @,
                                !.packed = FALSE]],
            !.pool = 0,
            !.round = @ + 1,
            !.currentTurn = IF winnerIndex >= 0 THEN winnerIndex ELSE 0]

\* the automatic settlement inside packCards: the one player left wins
autoWin(room) ==
    LET w == CHOOSE i \in activePlayers(room) : TRUE
        winAmount == room.pool
        winnerIndex == findIndexById(room.players, room.players[w].id)
    IN  [room EXCEPT
            !.players = [i \in 1 .. Len(room.players) |->
                            [room.players[i] EXCEPT
                                !.balance = IF i = w THEN @ + winAmount ELSE @,
                                !.packed = FALSE]],
            !.pool = 0,
            !.round = @ + 1,
            !.totalBids = 0,
            !.currentTurn = IF winnerIndex >= 0 THEN winnerIndex ELSE 0]

\* whether packCards by the player at playerIndex ends in the automatic win
packSettles(room, playerIndex) ==
    Cardinality(activePlayers(
        [room EXCEPT !.players[playerIndex + 1].packed = TRUE])) = 1

\* a pack that never settles the round
packRoomNeverSettles(room, playerIndex) ==
    ensureActiveTurn(moveToNextActivePlayer(
        [room EXCEPT !.players[playerIndex + 1].packed = TRUE]))

\* the pack as packCards applies it to the room
packRoom(room, playerIndex) ==
    LET moved == moveToNextActivePlayer(
                     [room EXCEPT !.players[playerIndex + 1].packed = TRUE])
    IN  IF Cardinality(activePlayers(moved)) = 1
        THEN ensureActiveTurn(autoWin(moved))
        ELSE ensureActiveTurn(moved)

\* socket.on('packCards')
packCards(s) ==
    /\ sockets[s].connected
    /\ LET roomCode == sockets[s].roomCode
           playerId == sockets[s].playerId
           pos == roomPos(rooms, roomCode)
       IN  IF roomCode = "" \/ playerId = 0
           THEN Fail("NotInRoom")
           ELSE IF pos = 0
           THEN Fail("RoomNotFound")
           ELSE LET room == rooms[pos]
                    playerIndex == findIndexById(room.players, playerId)
                IN  IF playerIndex = -1
                    THEN Fail("PlayerNotFound")
                    ELSE IF room.players[playerIndex + 1].packed
                    THEN Fail("AlreadyPacked")
                    ELSE IF room.currentTurn # playerIndex
                    THEN Fail("PackNotYourTurn")
                    ELSE /\ packSettles(room, playerIndex) => room.round < MaxRound
                         /\ rooms' = [rooms EXCEPT ![pos] = packRoom(room, playerIndex)]
                         /\ reply' =
                               [err |-> "",
                                events |-> IF packSettles(room, playerIndex)
                                           THEN {"winnerDeclared", "playerPacked",
                                                 "roomUpdate"}
                                           ELSE {"playerPacked", "roomUpdate"},
                                to |-> ioTo(sockets, roomCode),
                                log |-> IF packSettles(room, playerIndex)
                                        THEN <<"packed", "autoWon">>
                                        ELSE <<"packed">>,
                                snapshot |-> <<rooms'[pos]>>]
                         /\ bidSum' = IF packSettles(room, playerIndex)
                                      THEN [bidSum EXCEPT ![roomCode] = 0]
                                      ELSE bidSum
                         /\ bidCount' = IF packSettles(room, playerIndex)
                                        THEN [bidCount EXCEPT ![roomCode] = 0]
                                        ELSE bidCount
                         /\ UNCHANGED <<sockets, timers, idCount, removedIds>>

\* a reset that keeps the round number and the turn
resetRoomKeepsRound(room) ==
    [room EXCEPT
        !.pool = 0,
        !.totalBids = 0,
        !.players = [i \in 1 .. Len(room.players) |->
                        [room.players[i] EXCEPT
                            !.balance = room.startingBalance,
                            !.packed = FALSE]]]

\* the reset as resetPool applies it to the room
resetRoom(room) ==
    [room EXCEPT
        !.pool = 0,
        !.round = 1,
        !.totalBids = 0,
        !.currentTurn = 0,
        !.players = [i \in 1 .. Len(room.players) |->
                        [room.players[i] EXCEPT
                            !.balance = room.startingBalance,
                            !.packed = FALSE]]]

\* find by socket.playerId, then !player || !player.isCreator
notCreator(room, playerId) ==
    \/ findIndexById(room.players, playerId) = -1
    \/ ~room.players[findIndexById(room.players, playerId) + 1].isCreator

\* a resetPool that resets before it checks who asks
resetPoolBeforeCheck(s) ==
    /\ sockets[s].connected
    /\ LET roomCode == sockets[s].roomCode
           playerId == sockets[s].playerId
           pos == roomPos(rooms, roomCode)
       IN  IF roomCode = "" \/ playerId = 0
           THEN Fail("NotInRoom")
           ELSE IF pos = 0
           THEN Fail("RoomNotFound")
           ELSE /\ rooms' = [rooms EXCEPT ![pos] = resetRoom(rooms[pos])]
                /\ reply' = IF notCreator(rooms[pos], playerId)
                            THEN errorReply("Forbidden")
                            ELSE [err |-> "",
                                  events |-> {"poolReset", "roomUpdate"},
                                  to |-> ioTo(sockets, roomCode),
                                  log |-> <<"reset">>,
                                  snapshot |-> <<rooms'[pos]>>]
                /\ bidSum' = [bidSum EXCEPT ![roomCode] = 0]
                /\ bidCount' = [bidCount EXCEPT ![roomCode] = 0]
                /\ UNCHANGED <<sockets, timers, idCount, removedIds>>

\* socket.on('resetPool')
resetPool(s) ==
    /\ sockets[s].connected
    /\ LET roomCode == sockets[s].roomCode
           playerId == sockets[s].playerId
           pos == roomPos(rooms, roomCode)
       IN  IF roomCode = "" \/ playerId = 0
           THEN Fail("NotInRoom")
           ELSE IF pos = 0
           THEN Fail("RoomNotFound")
           ELSE IF notCreator(rooms[pos], playerId)
           THEN Fail("Forbidden")
           ELSE /\ rooms' = [rooms EXCEPT ![pos] = resetRoom(rooms[pos])]
                /\ reply' = [err |-> "",
                             events |-> {"poolReset", "roomUpdate"},
                             to |-> ioTo(sockets, roomCode),
                             log |-> <<"reset">>,
                             snapshot |-> <<rooms'[pos]>>]
                /\ bidSum' = [bidSum EXCEPT ![roomCode] = 0]
                /\ bidCount' = [bidCount EXCEPT ![roomCode] = 0]
                /\ UNCHANGED <<sockets, timers, idCount, removedIds>>

\* a settlement that leaves the packed flags as they are
declareRoomKeepsPacked(room, winnerId) ==
    LET w == findIndexById(room.players, winnerId) + 1
    IN  [room EXCEPT
            !.players[w].balance = @ + room.pool,
            !.pool = 0,
            !.round = @ + 1,
            !.totalBids = 0,
            !.currentTurn = w - 1]

\* a settlement that counts the round down
declareRoomCountsDown(room, winnerId) ==
    LET w == findIndexById(room.players, winnerId) + 1
    IN  [room EXCEPT
            !.players = [i \in 1 .. Len(room.players) |->
                            [room.players[i] EXCEPT
                                !.balance = IF i = w THEN @ + room.pool ELSE @,
                                !.packed = FALSE]],
            !.pool = 0,
            !.round = @ - 1,
            !.totalBids = 0,
            !.currentTurn = w - 1]

\* a settlement that pays the pool to every participant
declareRoomPaysEverybody(room, winnerId) ==
    LET w == findIndexById(room.players, winnerId) + 1
    IN  [room EXCEPT
            !.players = [i \in 1 .. Len(room.players) |->
                            [room.players[i] EXCEPT
                                !.balance = @ + room.pool,
                                !.packed = FALSE]],
            !.pool = 0,
            !.round = @ + 1,
            !.totalBids = 0,
            !.currentTurn = w - 1]

\* the settlement as declareWinner applies it to the room
declareRoom(room, winnerId) ==
    LET w == findIndexById(room.players, winnerId) + 1
        winAmount == room.pool
        winnerIndex == findIndexById(room.players, room.players[w].id)
    IN  [room EXCEPT
            !.players = [i \in 1 .. Len(room.players) |->
                            [room.players[i] EXCEPT
                                !.balance = IF i = w THEN @ + winAmount ELSE @,
                                !.packed = FALSE]],
            !.pool = 0,
            !.round = @ + 1,
            !.totalBids = 0,
            !.currentTurn = IF winnerIndex >= 0 THEN winnerIndex ELSE 0]

\* socket.on('declareWinner')
declareWinner(s, winnerId) ==
    /\ sockets[s].connected
    /\ LET roomCode == sockets[s].roomCode
           playerId == sockets[s].playerId
           pos == roomPos(rooms, roomCode)
       IN  IF roomCode = "" \/ playerId = 0
           THEN Fail("NotInRoom")
           ELSE IF pos = 0
           THEN Fail("RoomNotFound")
           ELSE IF notCreator(rooms[pos], playerId)
           THEN Fail("Forbidden")
           ELSE IF findIndexById(rooms[pos].players, winnerId) = -1
           THEN Fail("WinnerNotFound")
           ELSE IF rooms[pos].pool <= 0
           THEN Fail("EmptyPool")
           ELSE /\ rooms[pos].round < MaxRound
                /\ rooms' = [rooms EXCEPT ![pos] = declareRoom(rooms[pos], winnerId)]
                /\ reply' = [err |-> "",
                             events |-> {"winnerDeclared", "roomUpdate"},
                             to |-> ioTo(sockets, roomCode),
                             log |-> <<"won">>,
                             snapshot |-> <<rooms'[pos]>>]
                /\ bidSum' = [bidSum EXCEPT ![roomCode] = 0]
                /\ bidCount' = [bidCount EXCEPT ![roomCode] = 0]
                /\ UNCHANGED <<sockets, timers, idCount, removedIds>>

\* a turn adjustment that never wraps the turn back to 0
adjustTurnNoWrap(room, playerIndex) ==
    IF playerIndex < room.currentTurn
    THEN [room EXCEPT !.currentTurn = @ - 1]
    ELSE room

\* the turn adjustment of removePlayer, after the splice at playerIndex
adjustTurn(room, playerIndex) ==
    IF room.currentTurn >= Len(room.players)
    THEN [room EXCEPT !.currentTurn = 0]
    ELSE IF playerIndex < room.currentTurn
    THEN [room EXCEPT !.currentTurn = @ - 1]
    ELSE room

\* a removal that adjusts the turn and leaves the player in the list
removeRoomKeepsPlayer(room, playerIndex) ==
    adjustTurn(room, playerIndex)

\* the removal as removePlayer applies it to the room
removeRoom(room, playerIndex) ==
    adjustTurn([room EXCEPT !.players = splice(@, playerIndex)], playerIndex)

\* socket.on('removePlayer')
removePlayer(s, playerIdToRemove) ==
    /\ sockets[s].connected
    /\ LET roomCode == sockets[s].roomCode
           playerId == sockets[s].playerId
           pos == roomPos(rooms, roomCode)
       IN  IF roomCode = "" \/ playerId = 0
           THEN Fail("NotInRoom")
           ELSE IF pos = 0
           THEN Fail("RoomNotFound")
           ELSE IF notCreator(rooms[pos], playerId)
           THEN Fail("Forbidden")
           ELSE IF findIndexById(rooms[pos].players, playerIdToRemove) = -1
           THEN Fail("PlayerNotFound")
           ELSE IF rooms[pos].players[
                       findIndexById(rooms[pos].players, playerIdToRemove) + 1].isCreator
           THEN Fail("CannotRemoveOwner")
           ELSE /\ rooms' = [rooms EXCEPT ![pos] = removeRoom(rooms[pos],
                                findIndexById(rooms[pos].players, playerIdToRemove))]
                /\ reply' = [err |-> "",
                             events |-> {"playerRemoved", "playerLeft", "roomUpdate"},
                             to |-> ioTo(sockets, roomCode),
                             log |-> <<"removed">>,
                             snapshot |-> <<rooms'[pos]>>]
                /\ removedIds' = removedIds \cup {playerIdToRemove}
                /\ UNCHANGED <<sockets, timers, idCount, bidSum, bidCount>>

\* a changeTurn that does not look at the target's packed flag
changeTurnToAnybody(s, newTurnPlayerId) ==
    /\ sockets[s].connected
    /\ LET roomCode == sockets[s].roomCode
           playerId == sockets[s].playerId
           pos == roomPos(rooms, roomCode)
       IN  IF roomCode = "" \/ playerId = 0
           THEN Fail("NotInRoom")
           ELSE IF pos = 0
           THEN Fail("RoomNotFound")
           ELSE IF notCreator(rooms[pos], playerId)
           THEN Fail("Forbidden")
           ELSE IF findIndexById(rooms[pos].players, newTurnPlayerId) = -1
           THEN Fail("PlayerNotFound")
           ELSE /\ rooms' = [rooms EXCEPT ![pos].currentTurn =
                                findIndexById(rooms[pos].players, newTurnPlayerId)]
                /\ reply' = [err |-> "",
                             events |-> {"turnChanged", "roomUpdate"},
                             to |-> ioTo(sockets, roomCode),
                             log |-> <<"turnChanged">>,
                             snapshot |-> <<rooms'[pos]>>]
                /\ UNCHANGED <<sockets, timers, idCount, bidSum, bidCount, removedIds>>

\* socket.on('changeTurn')
changeTurn(s, newTurnPlayerId) ==
    /\ sockets[s].connected
    /\ LET roomCode == sockets[s].roomCode
           playerId == sockets[s].playerId
           pos == roomPos(rooms, roomCode)
       IN  IF roomCode = "" \/ playerId = 0
           THEN Fail("NotInRoom")
           ELSE IF pos = 0
           THEN Fail("RoomNotFound")
           ELSE IF notCreator(rooms[pos], playerId)
           THEN Fail("Forbidden")
           ELSE IF findIndexById(rooms[pos].players, newTurnPlayerId) = -1
           THEN Fail("PlayerNotFound")
           ELSE IF rooms[pos].players[
                       findIndexById(rooms[pos].players, newTurnPlayerId) + 1].packed
           THEN Fail("TargetInactive")
           ELSE /\ rooms' = [rooms EXCEPT ![pos].currentTurn =
                                findIndexById(rooms[pos].players, newTurnPlayerId)]
                /\ reply' = [err |-> "",
                             events |-> {"turnChanged", "roomUpdate"},
                             to |-> ioTo(sockets, roomCode),
                             log |-> <<"turnChanged">>,
                             snapshot |-> <<rooms'[pos]>>]
                /\ UNCHANGED <<sockets, timers, idCount, bidSum, bidCount, removedIds>>

\* a leave that does not hand the creator flag over
leaveRoomRoomNoHandOver(room, playerIndex) ==
    LET rest == splice(room.players, playerIndex)
    IN  [room EXCEPT !.players = rest,
                     !.currentTurn = IF @ >= Len(rest) THEN 0 ELSE @]

\* leaveRoom's removal of the player at playerIndex: the splice, the hand-over
\* of the creator flag, and the turn clamp of a room that is not left empty
leaveRoomRoom(room, playerIndex) ==
    LET wasCreator == room.players[playerIndex + 1].isCreator
        rest == splice(room.players, playerIndex)
        handed == IF wasCreator /\ Len(rest) > 0
                  THEN [room EXCEPT !.players = [rest EXCEPT ![1].isCreator = TRUE],
                                    !.creator = rest[1].name]
                  ELSE [room EXCEPT !.players = rest]
    IN  IF Len(rest) # 0 /\ handed.currentTurn >= Len(rest)
        THEN [handed EXCEPT !.currentTurn = 0]
        ELSE handed

\* socket.leave(roomCode); socket.playerId = null; socket.roomCode = null
unbindSocket(socks, s, roomCode) ==
    [socks EXCEPT ![s] = [@ EXCEPT !.joined = @ \ {roomCode},
                                   !.playerId = 0,
                                   !.roomCode = ""]]

\* socket.on('leaveRoom')
leaveRoom(s) ==
    /\ sockets[s].connected
    /\ LET roomCode == sockets[s].roomCode
           playerId == sockets[s].playerId
           pos == roomPos(rooms, roomCode)
       IN  IF roomCode = "" \/ playerId = 0
           THEN Return
           ELSE IF pos = 0
           THEN Return
           ELSE LET room == rooms[pos]
                    playerIndex == findIndexById(room.players, playerId)
                IN  /\ sockets' = unbindSocket(sockets, s, roomCode)
                    /\ UNCHANGED <<timers, idCount>>
                    /\ IF playerIndex = -1
                       THEN /\ reply' = errorReply("")
                            /\ UNCHANGED <<rooms, bidSum, bidCount, removedIds>>
                       ELSE IF Len(room.players) = 1
                       THEN /\ rooms' = roomsDelete(rooms, roomCode)
                            /\ reply' = [err |-> "", events |-> {}, to |-> {},
                                         log |-> <<"left">>,
                                         snapshot |-> <<>>]
                            /\ bidSum' = [bidSum EXCEPT ![roomCode] = 0]
                            /\ bidCount' = [bidCount EXCEPT ![roomCode] = 0]
                            /\ removedIds' = removedIds \cup {playerId}
                       ELSE /\ rooms' = [rooms EXCEPT ![pos] =
                                            leaveRoomRoom(room, playerIndex)]
                            /\ reply' = [err |-> "",
                                         events |-> {"playerLeft", "roomUpdate"},
                                         to |-> ioTo(sockets, roomCode),
                                         log |-> <<"left">>,
                                         snapshot |-> <<rooms'[pos]>>]
                            /\ removedIds' = removedIds \cup {playerId}
                            /\ UNCHANGED <<bidSum, bidCount>>

\* the first room, in Map order, that holds a player bound to the socket
firstRoomOf(rs, s) ==
    IF \E i \in 1 .. Len(rs) : findIndexBySocket(rs[i].players, s) # -1
    THEN CHOOSE i \in 1 .. Len(rs) :
             /\ findIndexBySocket(rs[i].players, s) # -1
             /\ \A j \in 1 .. (i - 1) : findIndexBySocket(rs[j].players, s) = -1
    ELSE 0

\* the ids of the participants, of any room, bound to the socket: kept with
\* the timer as a record of whose connection dropped (the code keeps only the
\* first of them)
boundTo(rs, s) ==
    UNION {{rs[i].players[j].id :
                j \in {k \in 1 .. Len(rs[i].players) :
                          rs[i].players[k].socketId = s}} :
           i \in 1 .. Len(rs)}

\* socket.on('disconnect'): sets the timer; the closed socket is in no
\* socket.io room and none of its fields is read again
disconnect(s) ==
    /\ sockets[s].connected
    /\ sockets' = [sockets EXCEPT ![s] = [connected |-> FALSE, playerId |-> 0,
                                          roomCode |-> "", joined |-> {}]]
    /\ timers' = IF firstRoomOf(rooms, s) = 0
                 THEN timers
                 ELSE LET room == rooms[firstRoomOf(rooms, s)]
                      IN  Append(timers,
                                 [roomCode |-> room.code,
                                  playerId |-> room.players[
                                      findIndexBySocket(room.players, s) + 1].id,
                                  socketId |-> s,
                                  bound |-> boundTo(rooms, s)])
    /\ reply' = errorReply("")
    /\ UNCHANGED <<rooms, idCount, bidSum, bidCount, removedIds>>

\* a timer removal that hands the creator flag to the latest joiner
timeoutRoomHandsToLast(currentRoom, finalPlayerIndex) ==
    LET wasCreator == currentRoom.players[finalPlayerIndex + 1].isCreator
        rest == splice(currentRoom.players, finalPlayerIndex)
        handed == IF wasCreator /\ Len(rest) > 0
                  THEN [currentRoom EXCEPT
                           !.players = [rest EXCEPT ![Len(rest)].isCreator = TRUE],
                           !.creator = rest[Len(rest)].name]
                  ELSE [currentRoom EXCEPT !.players = rest]
    IN  IF Len(rest) # 0 /\ handed.currentTurn >= Len(rest)
        THEN [handed EXCEPT !.currentTurn = 0]
        ELSE handed

\* a timer removal that leaves currentTurn as it finds it
timeoutRoomKeepsTurn(currentRoom, finalPlayerIndex) ==
    LET wasCreator == currentRoom.players[finalPlayerIndex + 1].isCreator
        rest == splice(currentRoom.players, finalPlayerIndex)
    IN  IF wasCreator /\ Len(rest) > 0
        THEN [currentRoom EXCEPT
                 !.players = [rest EXCEPT ![1].isCreator = TRUE],
                 !.creator = rest[1].name]
        ELSE [currentRoom EXCEPT !.players = rest]

\* the timer callback's removal of the player at finalPlayerIndex
timeoutRoom(currentRoom, finalPlayerIndex) ==
    LET wasCreator == currentRoom.players[finalPlayerIndex + 1].isCreator
        rest == splice(currentRoom.players, finalPlayerIndex)
        handed == IF wasCreator /\ Len(rest) > 0
                  THEN [currentRoom EXCEPT
                           !.players = [rest EXCEPT ![1].isCreator = TRUE],
                           !.creator = rest[1].name]
                  ELSE [currentRoom EXCEPT !.players = rest]
    IN  IF Len(rest) # 0 /\ handed.currentTurn >= Len(rest)
        THEN [handed EXCEPT !.currentTurn = 0]
        ELSE handed

\* a staleness test that looks for the player and not at its binding
timerLiveAnyBinding(rs, t) ==
    /\ roomPos(rs, t.roomCode) # 0
    /\ findIndexById(rs[roomPos(rs, t.roomCode)].players, t.playerId) # -1

\* whether the timer finds its player still present and still bound to the
\* socket that dropped
timerLive(rs, t) ==
    /\ roomPos(rs, t.roomCode) # 0
    /\ LET players == rs[roomPos(rs, t.roomCode)].players
       IN  /\ findIndexById(players, t.playerId) # -1
           /\ players[findIndexById(players, t.playerId) + 1].socketId = t.socketId

\* the setTimeout callback of the disconnect handler, 30 s after the drop;
\* timers of equal delay fire in the order they were set
timeout ==
    /\ timers # <<>>
    /\ timers' = Tail(timers)
    /\ UNCHANGED <<sockets, idCount>>
    /\ LET t == Head(timers)
           pos == roomPos(rooms, t.roomCode)
       IN  IF ~timerLive(rooms, t)
           THEN /\ reply' = errorReply("")
                /\ UNCHANGED <<rooms, bidSum, bidCount, removedIds>>
           ELSE IF Len(rooms[pos].players) = 1
           THEN /\ rooms' = roomsDelete(rooms, t.roomCode)
                /\ reply' = [err |-> "", events |-> {}, to |-> {},
                             log |-> <<"leftTimeout">>,
                             snapshot |-> <<>>]
                /\ bidSum' = [bidSum EXCEPT ![t.roomCode] = 0]
                /\ bidCount' = [bidCount EXCEPT ![t.roomCode] = 0]
                /\ removedIds' = removedIds \cup {t.playerId}
           ELSE /\ rooms' = [rooms EXCEPT ![pos] = timeoutRoom(rooms[pos],
                                findIndexById(rooms[pos].players, t.playerId))]
                /\ reply' = [err |-> "",
                             events |-> {"playerLeft", "roomUpdate"},
                             to |-> ioTo(sockets, t.roomCode),
                             log |-> <<"leftTimeout">>,
                             snapshot |-> <<rooms'[pos]>>]
                /\ removedIds' = removedIds \cup {t.playerId}
                /\ UNCHANGED <<bidSum, bidCount>>

----------------------------------------------------------------------------
(* Specifications *)

\* the handlers, run by the connections of socks, with createRoom drawing its
\* code from codes and at most ids player ids handed out
NextOver(socks, codes, ids) ==
    \/ \E s \in socks, n \in NameInputs, c \in codes :
           idCount < ids /\ createRoom(s, n, MaxStart, c)
    \/ \E s \in socks, c \in codes \cup {""}, p \in IdInputs, n \in RejoinNames :
           rejoinRoom(s, c, p, n)
    \/ \E s \in socks, n \in NameInputs, c \in CodeInputs :
           idCount < ids /\ joinRoom(s, n, c)
    \/ \E s \in socks, a \in BidInputs : placeBid(s, a)
    \/ \E s \in socks : packCards(s)
    \/ \E s \in socks : resetPool(s)
    \/ \E s \in socks, w \in IdInputs : declareWinner(s, w)
    \/ \E s \in socks, p \in IdInputs : removePlayer(s, p)
    \/ \E s \in socks, p \in IdInputs : changeTurn(s, p)
    \/ \E s \in socks : leaveRoom(s)
    \/ \E s \in socks : disconnect(s)
    \/ timeout

\* one connection plays every participant of one room
Next == NextOver({"s1"}, {"1000"}, MaxIds)

Spec == Init /\ [][Next]_vars

\* the same, with every pending disconnect timer firing in the end: a timer
\* set by setTimeout runs once its 30 s are over
SpecFair == Init /\ [][Next]_vars /\ WF_vars(timeout)

\* two connections, one room, MaxConnIds participants
MaxConnIds == 2

NextConn == NextOver(Sockets, {"1000"}, MaxConnIds)

SpecConn == Init /\ [][NextConn]_vars

\* one connection, two room codes, MaxRoomIds participants
MaxRoomIds == 2

NextRooms == NextOver({"s1"}, Codes, MaxRoomIds)

SpecRooms == Init /\ [][NextRooms]_vars

\* one connection, one room, MaxStartIds participants, and a creator who may
\* ask for a negative starting balance as well
MaxStartIds == 2

StartInputs == {-1, MaxStart}

NextStart ==
    \/ \E n \in NameInputs, b \in StartInputs :
           idCount < MaxStartIds /\ createRoom("s1", n, b, "1000")
    \/ NextOver({"s1"}, {"1000"}, MaxStartIds)

SpecStart == Init /\ [][NextStart]_vars

\* the turn scheduler alone, on a room of up to MaxTurnPlayers participants
\* with any packed flags and any turn
MaxTurnPlayers == 4

turnRoom(flags, turn) ==
    [code |-> "1000",
     creator |-> UserNames[1],
     startingBalance |-> MaxStart,
     players |-> [i \in 1 .. Len(flags) |->
                     [id |-> i,
                      socketId |-> "s1",
                      name |-> UserNames[i],
                      balance |-> MaxStart,
                      isCreator |-> (i = 1),
                      packed |-> flags[i]]],
     pool |-> 0,
     currentTurn |-> turn,
     round |-> 1,
     totalBids |-> 0]

InitTurn ==
    /\ \E n \in 1 .. MaxTurnPlayers :
           \E flags \in [1 .. n -> BOOLEAN], turn \in 0 .. (n - 1) :
               /\ rooms = <<turnRoom(flags, turn)>>
               /\ idCount = n
    /\ sockets = [s \in Sockets |->
                     [connected |-> TRUE, playerId |-> 0, roomCode |-> "",
                      joined |-> {}]]
    /\ timers = <<>>
    /\ reply = errorReply("")
    /\ bidSum = [c \in Codes |-> 0]
    /\ bidCount = [c \in Codes |-> 0]
    /\ removedIds = {}

\* one call of moveToNextActivePlayer(room)
moveTurn ==
    /\ rooms' = [rooms EXCEPT ![1] = moveToNextActivePlayer(rooms[1])]
    /\ reply' = [err |-> "", events |-> {}, to |-> {}, log |-> <<"moved">>,
                 snapshot |-> <<>>]
    /\ UNCHANGED <<sockets, timers, idCount, bidSum, bidCount, removedIds>>

NextTurn == moveTurn

SpecTurn == InitTurn /\ [][NextTurn]_vars

\* the game log alone: one room, whose gameLog the handlers' calls of
\* addToGameLog fill.  An entry, "[timestamp] message" in the code, is the
\* number of the call that appended it.
MaxLogAppends == 120

\* the length addToGameLog cuts the log back to
LogCap == 50

\* a log that keeps its first LogCap entries and drops the new one
addToGameLogKeepsOldest(room, message) ==
    LET pushed == Append(room.gameLog, message)
    IN  [room EXCEPT !.gameLog =
            IF Len(pushed) > LogCap
            THEN SubSeq(pushed, 1, LogCap)
            ELSE pushed]

\* push, then slice(-50) when the log is longer than 50
addToGameLog(room, message) ==
    LET pushed == Append(room.gameLog, message)
    IN  [room EXCEPT !.gameLog =
            IF Len(pushed) > LogCap
            THEN SubSeq(pushed, Len(pushed) - LogCap + 1, Len(pushed))
            ELSE pushed]

\* the room object with its gameLog field
logRoom ==
    [code |-> "1000",
     creator |-> UserNames[1],
     startingBalance |-> MaxStart,
     players |-> <<[id |-> 1, socketId |-> "s1", name |-> UserNames[1],
                    balance |-> MaxStart, isCreator |-> TRUE,
                    packed |-> FALSE]>>,
     pool |-> 0,
     currentTurn |-> 0,
     round |-> 1,
     gameLog |-> <<>>,
     totalBids |-> 0]

InitLog ==
    /\ rooms = <<logRoom>>
    /\ sockets = [s \in Sockets |->
                     [connected |-> TRUE, playerId |-> 0, roomCode |-> "",
                      joined |-> {}]]
    /\ timers = <<>>
    /\ idCount = 1
    /\ reply = errorReply("")
    /\ bidSum = [c \in Codes |-> 0]
    /\ bidCount = [c \in Codes |-> 0]
    /\ removedIds = {}

\* the number the next call of addToGameLog gets
nextEntry(gameLog) ==
    IF gameLog = <<>> THEN 1 ELSE gameLog[Len(gameLog)] + 1

\* one call of addToGameLog(room, message)
appendLog ==
    /\ nextEntry(rooms[1].gameLog) <= MaxLogAppends
    /\ rooms' = [rooms EXCEPT ![1] =
                    addToGameLog(rooms[1], nextEntry(rooms[1].gameLog))]
    /\ reply' = [err |-> "", events |-> {}, to |-> {},
                 log |-> <<nextEntry(rooms[1].gameLog)>>,
                 snapshot |-> <<>>]
    /\ UNCHANGED <<sockets, timers, idCount, bidSum, bidCount, removedIds>>

NextLog == appendLog

SpecLog == InitLog /\ [][NextLog]_vars

----------------------------------------------------------------------------
(* Claims *)

\* the live rooms, as positions in the Map
LiveRooms == 1 .. Len(rooms)

\* C1: in every live room, if at least one participant is not packed, the
\* participant at currentTurn is not packed.
C1_TurnOnActivePlayer ==
    \A r \in LiveRooms :
        activePlayers(rooms[r]) # {} =>
            ~rooms[r].players[rooms[r].currentTurn + 1].packed

\* C2: in every live room, pool equals the sum of the amounts of the bids
\* accepted in the room since its last settlement, reset or creation.
C2_PoolIsSumOfBids ==
    \A r \in LiveRooms : rooms[r].pool = bidSum[rooms[r].code]

\* C2 witness: a pool that holds two accepted bids
C2_Witness ==
    \E r \in LiveRooms :
        /\ rooms[r].pool >= 2
        /\ bidCount[rooms[r].code] >= 2
        /\ "bidPlaced" \in reply.events

\* C3: an operation that reports an error leaves every room as it was
\* (participants, bindings, balances, packed flags, pool, round, totalBids,
\* currentTurn) and appends nothing to a log.
C3_ErrorChangesNothing ==
    [][reply'.err # "" => (rooms' = rooms /\ reply'.log = <<>>)]_vars

\* C3 witness: a bid was refused for want of balance
C3_Witness ==
    /\ reply.err = "InsufficientBalance"
    /\ rooms # <<>>

\* C4: every live room has exactly one participant with isCreator = TRUE.
C4_OneCreator ==
    \A r \in LiveRooms :
        Cardinality({i \in 1 .. Len(rooms[r].players) :
                        rooms[r].players[i].isCreator}) = 1

\* C4 witness: after a leave or a timeout removal the room lives on under a
\* creator who joined it later
C4_Witness ==
    /\ reply.log \in {<<"left">>, <<"leftTimeout">>}
    /\ \E r \in LiveRooms :
           /\ rooms[r].players[1].isCreator
           /\ rooms[r].players[1].name \notin {"a", "A"}
           /\ rooms[r].creator = rooms[r].players[1].name

\* C5: no room of the registry has an empty participant list, and a joinRoom
\* or rejoinRoom naming a code that no room has fails with room-not-found and
\* changes no room.
C5_NoEmptyRoom ==
    [][/\ \A r \in 1 .. Len(rooms') : Len(rooms'[r].players) > 0
       /\ \A s \in Sockets, c \in Codes :
              roomPos(rooms, c) = 0 =>
                  /\ \A n \in Names :
                         joinRoom(s, n, c) =>
                             (reply'.err = "RoomNotFound" /\ rooms' = rooms)
                  /\ \A q \in 1 .. MaxIds :
                         rejoinRoom(s, c, q, "a") =>
                             (reply'.err = "RejoinRoomNotFound" /\ rooms' = rooms)
      ]_vars

\* C5 witness: the one room was created and is gone, and a join was answered
\* with room-not-found
C5_Witness ==
    /\ idCount > 0
    /\ rooms = <<>>
    /\ reply.err = "RoomNotFound"

\* the first participant not packed, scanning circularly from (turn + 1) mod N
nextActiveFrom(players, turn) ==
    LET n == Len(players)
        k == CHOOSE d \in 1 .. n :
                 /\ ~players[((turn + d) % n) + 1].packed
                 /\ \A e \in 1 .. (d - 1) : players[((turn + e) % n) + 1].packed
    IN  (turn + k) % n

\* C6: when moveToNextActivePlayer runs on a room with a participant that is
\* not packed, the new currentTurn is the first participant not packed,
\* scanning circularly from (old currentTurn + 1) mod N.
C6_MoveFindsNextActive ==
    [][activePlayers(rooms[1]) # {} =>
           /\ rooms'[1].currentTurn =
                  nextActiveFrom(rooms[1].players, rooms[1].currentTurn)
           /\ ~rooms'[1].players[rooms'[1].currentTurn + 1].packed]_vars

\* C6 witness: the move has skipped a packed participant
C6_Witness ==
    /\ reply.log = <<"moved">>
    /\ Len(rooms[1].players) >= 3
    /\ ~rooms[1].players[rooms[1].currentTurn + 1].packed
    /\ rooms[1].players[((rooms[1].currentTurn + Len(rooms[1].players) - 1)
                            % Len(rooms[1].players)) + 1].packed

\* C7: a step that settles a round (declareWinner, or the packCards that
\* leaves one participant) leaves the room with nobody packed, pool = 0,
\* totalBids = 0 and round one more than before.
C7_SettlementResets ==
    []["winnerDeclared" \in reply'.events =>
           /\ Len(rooms') = Len(rooms)
           /\ \E r \in LiveRooms :
                  /\ rooms'[r].round = rooms[r].round + 1
                  /\ rooms'[r].pool = 0
                  /\ rooms'[r].totalBids = 0
                  /\ activePlayers(rooms'[r]) = 1 .. Len(rooms'[r].players)
                  /\ \A o \in LiveRooms \ {r} : rooms'[o] = rooms[o]]_vars

\* C7 witness: a round was settled with chips in the pool
C7_Witness ==
    /\ "winnerDeclared" \in reply.events
    /\ \E r \in LiveRooms :
           \E i \in 1 .. Len(rooms[r].players) :
               rooms[r].players[i].balance > rooms[r].startingBalance

\* the game fields of two rooms agree: ids, order, balances, packed flags,
\* pool, round, totalBids, currentTurn
sameGame(a, b) ==
    /\ Len(a.players) = Len(b.players)
    /\ \A i \in 1 .. Len(a.players) :
           /\ a.players[i].id = b.players[i].id
           /\ a.players[i].balance = b.players[i].balance
           /\ a.players[i].packed = b.players[i].packed
    /\ a.pool = b.pool
    /\ a.round = b.round
    /\ a.totalBids = b.totalBids
    /\ a.currentTurn = b.currentTurn

\* C8: from a pool > 0, a packCards that leaves W as the only participant not
\* packed yields the game state declareWinner(W) yields from the state before
\* the pack: W gains exactly the pool, no other balance changes, and
\* currentTurn is W's index.
C8_AutoWinIsDeclareWinner ==
    [][reply'.log = <<"packed", "autoWon">> =>
           \A r \in LiveRooms :
               (rooms'[r] # rooms[r] /\ rooms[r].pool > 0) =>
                   LET w == CHOOSE i \in activePlayers(rooms[r]) :
                                i # rooms[r].currentTurn + 1
                   IN  /\ activePlayers(rooms[r]) = {w, rooms[r].currentTurn + 1}
                       /\ sameGame(rooms'[r],
                                    declareRoom(rooms[r], rooms[r].players[w].id))
                       /\ \A i \in 1 .. Len(rooms[r].players) :
                              rooms'[r].players[i].balance =
                                  rooms[r].players[i].balance
                                      + (IF i = w THEN rooms[r].pool ELSE 0)
                       /\ rooms'[r].currentTurn = w - 1]_vars

\* C8 witness: the automatic settlement paid out a pool
C8_Witness ==
    /\ reply.log = <<"packed", "autoWon">>
    /\ \E r \in LiveRooms :
           /\ Len(rooms[r].players) >= 2
           /\ rooms[r].players[rooms[r].currentTurn + 1].balance
                  > rooms[r].startingBalance

\* the 0-based index removed from old to get new
removedIndex(old, new) ==
    (CHOOSE k \in 1 .. Len(old) :
         /\ (k > Len(new) \/ new[k].id # old[k].id)
         /\ \A j \in 1 .. (k - 1) : new[j].id = old[j].id) - 1

\* C9: a removePlayer of the participant at index i with the turn at t makes
\* currentTurn t - 1 if i < t, and leaves it t if i > t.
C9_RemoveAdjustsTurn ==
    [][reply'.log = <<"removed">> =>
           \A r \in LiveRooms :
               rooms'[r] # rooms[r] =>
                   LET i == removedIndex(rooms[r].players, rooms'[r].players)
                       t == rooms[r].currentTurn
                   IN  /\ i < t => rooms'[r].currentTurn = t - 1
                       /\ i > t => rooms'[r].currentTurn = t]_vars

\* the participant with this id is in a room and bound to another socket
\* than the one that dropped
rebound(rs, p, s) ==
    \E r \in 1 .. Len(rs) :
        \E i \in 1 .. Len(rs[r].players) :
            rs[r].players[i].id = p /\ rs[r].players[i].socketId # s

\* the participants, their order, names, balances, packed flags, owner and
\* currentTurn of every room are unchanged
sameTable(rs, rt) ==
    /\ Len(rs) = Len(rt)
    /\ \A r \in 1 .. Len(rs) :
           /\ rs[r].code = rt[r].code
           /\ sameGame(rs[r], rt[r])
           /\ \A i \in 1 .. Len(rs[r].players) :
                  /\ rs[r].players[i].isCreator = rt[r].players[i].isCreator
                  /\ rs[r].players[i].name = rt[r].players[i].name

\* C10: if a participant's connection drops and the participant rejoins with
\* the same id before the timer set by the drop fires, the timer removes
\* nobody; and neither the drop, the rejoin nor the timer changes the
\* participants, a balance, a packed flag, the owner or currentTurn.
C10_RejoinBeatsTimer ==
    [][/\ (/\ timers # <<>>
            /\ timers' = Tail(timers)
            /\ \E p \in Head(timers).bound :
                   rebound(rooms, p, Head(timers).socketId))
           => sameTable(rooms, rooms')
       /\ reply'.log = <<"reconnected">> => sameTable(rooms, rooms')
       /\ (\E s \in Sockets : sockets[s].connected /\ ~sockets'[s].connected)
           => rooms' = rooms]_vars

\* the id resolves to a participant of some room
resolves(rs, p) ==
    \E r \in 1 .. Len(rs) : findIndexById(rs[r].players, p) # -1

\* C11: once a participant has been removed (leaveRoom, removePlayer or the
\* disconnect timer), its id resolves to no participant again, and every
\* later rejoinRoom with that id fails with room-not-found or
\* player-not-found, adds no participant and changes no room.
C11_RemovedIdNeverResolves ==
    [][\A p \in removedIds' :
           /\ ~resolves(rooms', p)
           /\ p \in removedIds =>
                  \A s \in Sockets, c \in Codes, n \in Names :
                      rejoinRoom(s, c, p, n) =>
                          /\ reply'.err \in {"RejoinRoomNotFound",
                                              "RejoinPlayerNotFound"}
                          /\ rooms' = rooms]_vars

\* C11 witness: a rejoin was refused with player-not-found in a state where
\* every id handed out is either seated or removed, so the id it named is a
\* removed one
C11_Witness ==
    /\ reply.err = "RejoinPlayerNotFound"
    /\ idCount = MaxIds
    /\ removedIds # {}
    /\ \A q \in 1 .. MaxIds : q \in removedIds \/ resolves(rooms, q)

\* the connection still carries the id of a participant that a rejoinRoom
\* has since bound to another connection
staleFor(rs, socks, s) ==
    /\ socks[s].connected
    /\ socks[s].playerId # 0
    /\ rebound(rs, socks[s].playerId, s)

\* C12: after a participant id has been rebound to a new connection by
\* rejoinRoom, a placeBid, packCards or leaveRoom from the earlier, still
\* open connection does not change the room.
C12_OnlyLatestConnectionActs ==
    [][\A s \in Sockets :
           (/\ staleFor(rooms, sockets, s)
            /\ \/ \E a \in BidInputs : placeBid(s, a)
               \/ packCards(s)
               \/ leaveRoom(s))
           => rooms' = rooms]_vars

\* C13: createRoom registers the new room under a code that no live room is
\* using, so every room that was live stays in the registry as it was.
C13_CreateKeepsRooms ==
    [][reply'.log = <<"created">> =>
           /\ Len(rooms') = Len(rooms) + 1
           /\ roomPos(rooms, rooms'[Len(rooms')].code) = 0
           /\ \A r \in LiveRooms : rooms'[r] = rooms[r]]_vars

\* two names of the model are equal ignoring case
equalIgnoringCase(x, y) == x = y \/ {x, y} = {"a", "A"}

\* C14: no two participants of a room have names that are equal ignoring
\* case, and a joinRoom whose name collides, ignoring case, with a current
\* participant of the room (the creator included) is rejected.
C14_NamesUniqueIgnoringCase ==
    [][/\ \A r \in 1 .. Len(rooms') :
              \A i, j \in 1 .. Len(rooms'[r].players) :
                  i # j => ~equalIgnoringCase(rooms'[r].players[i].name,
                                              rooms'[r].players[j].name)
       /\ \A s \in Sockets, n \in Names, r \in LiveRooms :
              (/\ \E i \in 1 .. Len(rooms[r].players) :
                      equalIgnoringCase(rooms[r].players[i].name, n)
               /\ joinRoom(s, n, rooms[r].code))
              => (reply'.err = "DuplicateName" /\ rooms' = rooms)]_vars

\* C14 witness: a join under the creator's name in another case was rejected
C14_Witness ==
    /\ reply.err = "DuplicateName"
    /\ \E r \in LiveRooms :
           /\ rooms[r].players[1].isCreator
           /\ rooms[r].players[1].name \in {"a", "A"}

\* the same participants in the same order, under the same owner
sameSeats(a, b) ==
    /\ Len(a.players) = Len(b.players)
    /\ \A i \in 1 .. Len(a.players) :
           /\ a.players[i].id = b.players[i].id
           /\ a.players[i].name = b.players[i].name
           /\ a.players[i].socketId = b.players[i].socketId
           /\ a.players[i].isCreator = b.players[i].isCreator
    /\ a.creator = b.creator
    /\ a.code = b.code
    /\ a.startingBalance = b.startingBalance

\* C15: a successful resetPool sets every participant's balance to the
\* room's startingBalance and packed to false, and pool = 0, round = 1,
\* totalBids = 0, currentTurn = 0; the participant list, its order and the
\* owner are unchanged.
C15_ResetRestoresRoom ==
    [][\A s \in Sockets :
           (resetPool(s) /\ reply'.err = "") =>
               LET r == roomPos(rooms, sockets[s].roomCode)
               IN  /\ Len(rooms') = Len(rooms)
                   /\ \A o \in LiveRooms \ {r} : rooms'[o] = rooms[o]
                   /\ sameSeats(rooms'[r], rooms[r])
                   /\ \A i \in 1 .. Len(rooms'[r].players) :
                          /\ rooms'[r].players[i].balance = rooms[r].startingBalance
                          /\ ~rooms'[r].players[i].packed
                   /\ rooms'[r].pool = 0
                   /\ rooms'[r].round = 1
                   /\ rooms'[r].totalBids = 0
                   /\ rooms'[r].currentTurn = 0]_vars

\* C15 witness: the owner has reset a room of several participants, one of
\* whom had been removed before
C15_Witness ==
    /\ reply.log = <<"reset">>
    /\ removedIds # {}
    /\ \E r \in LiveRooms :
           /\ Len(rooms[r].players) >= 2
           /\ rooms[r].round = 1
           /\ rooms[r].pool = 0

\* the ids of the participants that carry the creator flag
owners(room) ==
    {room.players[i].id : i \in {k \in 1 .. Len(room.players) :
                                     room.players[k].isCreator}}

\* C16: when the owner leaves (leaveRoom or the disconnect timer) and another
\* participant remains, the room stays in the registry and the remaining
\* participant at index 0, the earliest joined, becomes the owner; when a
\* participant that is not the owner leaves, the owner is unchanged.
C16_OwnerHandOver ==
    [][reply'.log \in {<<"left">>, <<"leftTimeout">>} =>
           \A p \in removedIds' \ removedIds :
               \A r \in LiveRooms :
                   LET old == rooms[r].players
                       i == findIndexById(old, p)
                   IN  (i # -1 /\ Len(old) >= 2) =>
                           /\ Len(rooms') = Len(rooms)
                           /\ rooms'[r].code = rooms[r].code
                           /\ Len(rooms'[r].players) = Len(old) - 1
                           /\ \A k \in 1 .. Len(rooms'[r].players) :
                                  rooms'[r].players[k].id = splice(old, i)[k].id
                           /\ IF old[i + 1].isCreator
                              THEN /\ owners(rooms'[r]) = {splice(old, i)[1].id}
                                   /\ rooms'[r].players[1].isCreator
                                   /\ rooms'[r].creator = rooms'[r].players[1].name
                              ELSE owners(rooms'[r]) = owners(rooms[r])]_vars

\* C16 witness: the timer removed the owner and two participants remain, the
\* earlier of them as the owner
C16_Witness ==
    /\ reply.log = <<"leftTimeout">>
    /\ 1 \in removedIds
    /\ \E r \in LiveRooms :
           /\ Len(rooms[r].players) >= 2
           /\ owners(rooms[r]) = {rooms[r].players[1].id}

\* the connection is the one bound to the participant that owns the room the
\* connection is in
ownerConnection(rs, socks, s) ==
    \E r \in 1 .. Len(rs) :
        /\ rs[r].code = socks[s].roomCode
        /\ \E i \in 1 .. Len(rs[r].players) :
               /\ rs[r].players[i].isCreator
               /\ rs[r].players[i].id = socks[s].playerId
               /\ rs[r].players[i].socketId = s

\* C17: resetPool, declareWinner, removePlayer and changeTurn change a room
\* only when the requesting connection is bound to the participant that
\* currently owns the room; any other request is rejected and changes nothing.
C17_OwnerOnly ==
    [][\A s \in Sockets :
           (/\ ~ownerConnection(rooms, sockets, s)
            /\ \/ resetPool(s)
               \/ \E w \in IdInputs : declareWinner(s, w)
               \/ \E p \in IdInputs : removePlayer(s, p)
               \/ \E p \in IdInputs : changeTurn(s, p))
           => (reply'.err # "" /\ rooms' = rooms)]_vars

\* the Turn Advance of the design: the first participant not packed,
\* scanning circularly from (turn + 1) mod N; the turn stays where it is when
\* everybody is packed
turnAdvance(players, turn) ==
    IF \E i \in 1 .. Len(players) : ~players[i].packed
    THEN nextActiveFrom(players, turn)
    ELSE turn

\* C18: placeBid succeeds exactly when the requester is the participant at
\* currentTurn, amount > 0 and amount <= the requester's balance; on success
\* the requester's balance decreases by amount, pool increases by amount,
\* totalBids increases by 1, the turn is advanced by Turn Advance, and no
\* other participant's balance or packed flag changes.
C18_PlaceBid ==
    [][\A s \in Sockets, a \in BidInputs :
           (/\ placeBid(s, a)
            /\ roomPos(rooms, sockets[s].roomCode) # 0
            /\ findIndexById(rooms[roomPos(rooms, sockets[s].roomCode)].players,
                             sockets[s].playerId) # -1)
           => LET r == roomPos(rooms, sockets[s].roomCode)
                  room == rooms[r]
                  i == findIndexById(room.players, sockets[s].playerId) + 1
                  ok == /\ room.currentTurn = i - 1
                        /\ a > 0
                        /\ a <= room.players[i].balance
              IN  /\ reply'.err = "" <=> ok
                  /\ ~ok => rooms' = rooms
                  /\ ok =>
                        /\ Len(rooms') = Len(rooms)
                        /\ \A o \in LiveRooms \ {r} : rooms'[o] = rooms[o]
                        /\ Len(rooms'[r].players) = Len(room.players)
                        /\ rooms'[r].players[i].balance = room.players[i].balance - a
                        /\ rooms'[r].players[i].packed = room.players[i].packed
                        /\ \A j \in 1 .. Len(room.players) :
                               j # i => rooms'[r].players[j] = room.players[j]
                        /\ rooms'[r].pool = room.pool + a
                        /\ rooms'[r].totalBids = room.totalBids + 1
                        /\ rooms'[r].round = room.round
                        /\ rooms'[r].currentTurn =
                               turnAdvance(room.players, room.currentTurn)]_vars

\* C19: a successful packCards after which exactly one participant is not
\* packed settles the round in the same step with that participant as the
\* winner: the pool is credited to it and its index becomes currentTurn; a
\* successful packCards after which two or more are not packed settles
\* nothing and leaves pool, round and all balances unchanged.
C19_PackSettlesLastStanding ==
    [][\A s \in Sockets :
           (packCards(s) /\ reply'.err = "") =>
               LET r == roomPos(rooms, sockets[s].roomCode)
                   room == rooms[r]
                   i == findIndexById(room.players, sockets[s].playerId) + 1
                   left == activePlayers(room) \ {i}
               IN  /\ Len(rooms') = Len(rooms)
                   /\ Len(rooms'[r].players) = Len(room.players)
                   /\ Cardinality(left) = 1 =>
                          \A w \in left :
                              /\ "winnerDeclared" \in reply'.events
                              /\ \A j \in 1 .. Len(room.players) :
                                     rooms'[r].players[j].balance =
                                         room.players[j].balance
                                             + (IF j = w THEN room.pool ELSE 0)
                              /\ rooms'[r].pool = 0
                              /\ rooms'[r].round = room.round + 1
                              /\ rooms'[r].currentTurn = w - 1
                   /\ Cardinality(left) >= 2 =>
                          /\ "winnerDeclared" \notin reply'.events
                          /\ rooms'[r].players[i].packed
                          /\ \A j \in 1 .. Len(room.players) :
                                 rooms'[r].players[j].balance =
                                     room.players[j].balance
                          /\ rooms'[r].pool = room.pool
                          /\ rooms'[r].round = room.round]_vars

\* C19 witness: of three participants two have packed and the third was paid
\* the pool and holds the turn of round 2
C19_Witness ==
    /\ reply.log = <<"packed", "autoWon">>
    /\ \E r \in LiveRooms :
           /\ Len(rooms[r].players) = 3
           /\ rooms[r].round = 2
           /\ rooms[r].pool = 0
           /\ rooms[r].players[rooms[r].currentTurn + 1].balance
                  > rooms[r].startingBalance

\* the registry after leaveRoom by the participant with this id
afterLeave(rs, roomCode, playerId) ==
    LET pos == roomPos(rs, roomCode)
        playerIndex == findIndexById(rs[pos].players, playerId)
    IN  IF Len(rs[pos].players) = 1
        THEN roomsDelete(rs, roomCode)
        ELSE [rs EXCEPT ![pos] = leaveRoomRoom(rs[pos], playerIndex)]

\* C20: when the disconnect timer fires for a participant that has not been
\* rebound since the drop, the resulting rooms (participant list, owner,
\* currentTurn, deletion of the emptied room) are those leaveRoom by that
\* participant produces from the same state.
C20_TimeoutIsLeave ==
    [][(/\ timers # <<>>
        /\ timers' = Tail(timers)
        /\ timerLive(rooms, Head(timers)))
       => /\ reply'.log = <<"leftTimeout">>
          /\ rooms' = afterLeave(rooms, Head(timers).roomCode,
                                  Head(timers).playerId)]_vars

\* C20 witness: the timer removed a participant from a room in which a bid
\* had moved the turn on; the room lives on with the turn at index 0
C20_Witness ==
    /\ reply.log = <<"leftTimeout">>
    /\ removedIds # {}
    /\ \E r \in LiveRooms :
           /\ rooms[r].currentTurn = 0
           /\ rooms[r].totalBids > 0

\* every room registered under another code than c is in the registry as it
\* was, and no room appears under another code than c
othersUntouched(rs, rt, c) ==
    /\ \A r \in 1 .. Len(rs) :
           rs[r].code # c => \E q \in 1 .. Len(rt) : rt[q] = rs[r]
    /\ \A q \in 1 .. Len(rt) :
           rt[q].code # c => \E r \in 1 .. Len(rs) : rs[r] = rt[q]

\* C21: an operation issued for one room code (createRoom for the code it
\* draws, joinRoom and rejoinRoom for the code they name, the others for the
\* code of the requesting connection, the timer for the code it was set for)
\* leaves every other live room unchanged; a disconnect changes no room.
C21_OtherRoomsUntouched ==
    [][/\ \A s \in Sockets, c \in Codes :
              /\ (\E n \in NameInputs : createRoom(s, n, MaxStart, c))
                     => othersUntouched(rooms, rooms', c)
              /\ (\E n \in NameInputs : joinRoom(s, n, c))
                     => othersUntouched(rooms, rooms', c)
              /\ (\E p \in IdInputs, n \in RejoinNames : rejoinRoom(s, c, p, n))
                     => othersUntouched(rooms, rooms', c)
       /\ \A s \in Sockets :
              /\ (\/ \E a \in BidInputs : placeBid(s, a)
                  \/ packCards(s)
                  \/ resetPool(s)
                  \/ \E w \in IdInputs : declareWinner(s, w)
                  \/ \E p \in IdInputs : removePlayer(s, p)
                  \/ \E p \in IdInputs : changeTurn(s, p)
                  \/ leaveRoom(s))
                     => othersUntouched(rooms, rooms', sockets[s].roomCode)
              /\ disconnect(s) => rooms' = rooms
       /\ (timers # <<>> /\ timeout)
              => othersUntouched(rooms, rooms', Head(timers).roomCode)]_vars

\* C21 witness: with two rooms live, a bid was accepted in one of them
C21_Witness ==
    /\ Len(rooms) = 2
    /\ reply.log = <<"bid">>
    /\ \E r \in LiveRooms : rooms[r].pool > 0
    /\ \E r \in LiveRooms : rooms[r].pool = 0 /\ rooms[r].totalBids = 0

\* C22: a room's round starts at 1 and never decreases while the room lives.
C22_RoundNeverDecreases ==
    [][IF reply'.log = <<"created">>
       THEN rooms'[Len(rooms')].round = 1
       ELSE \A r \in LiveRooms, q \in 1 .. Len(rooms') :
                rooms'[q].code = rooms[r].code =>
                    rooms'[q].round >= rooms[r].round]_vars

\* C22 as amended: a room's round starts at 1; a successful resetPool sets
\* it back to 1, and no other operation on the room decreases it.
C22_RoundDecreasesOnlyOnReset ==
    [][IF reply'.log = <<"created">>
       THEN rooms'[Len(rooms')].round = 1
       ELSE \A r \in LiveRooms, q \in 1 .. Len(rooms') :
                rooms'[q].code = rooms[r].code =>
                    \/ rooms'[q].round >= rooms[r].round
                    \/ reply'.log = <<"reset">> /\ rooms'[q].round = 1]_vars

\* C22 witness: the owner has declared a winner and the room is in round 2
C22_Witness ==
    /\ reply.log = <<"won">>
    /\ \E r \in LiveRooms : rooms[r].round = 2

\* C23: in every reachable state pool >= 0 and every participant's balance
\* is >= 0.
C23_NothingNegative ==
    \A r \in LiveRooms :
        /\ rooms[r].pool >= 0
        /\ \A i \in 1 .. Len(rooms[r].players) : rooms[r].players[i].balance >= 0

\* C24: every successful mutating operation on a room that exists afterwards
\* (joinRoom, rejoinRoom, placeBid, packCards, resetPool, declareWinner,
\* removePlayer, changeTurn, leaveRoom, the timer's removal) emits, in the
\* same step, a roomUpdate whose snapshot is the room as the operation leaves
\* it; an operation that deletes the room emits no roomUpdate.
C24_SnapshotAfterMutation ==
    [][reply'.log \notin {<<>>, <<"created">>} =>
           IF Len(rooms') < Len(rooms)
           THEN /\ "roomUpdate" \notin reply'.events
                /\ reply'.snapshot = <<>>
           ELSE /\ "roomUpdate" \in reply'.events
                /\ Len(rooms') = Len(rooms)
                /\ \E r \in LiveRooms :
                       /\ reply'.snapshot = <<rooms'[r]>>
                       /\ \A o \in LiveRooms \ {r} : rooms'[o] = rooms[o]]_vars

\* C24 witness: a join moved the turn off a packed participant and the
\* snapshot sent shows the turn where the join left it
C24_Witness ==
    /\ reply.log = <<"joined">>
    /\ "roomUpdate" \in reply.events
    /\ \E r \in LiveRooms :
           /\ reply.snapshot = <<rooms[r]>>
           /\ rooms[r].players[1].packed
           /\ rooms[r].currentTurn = Len(rooms[r].players) - 1

\* C25: a room's log never holds more than 50 entries; an entry appended to
\* a full log drops the oldest entry, and the others keep their order with
\* the new entry last.
C25_LogKeepsLastFifty ==
    [][/\ Len(rooms'[1].gameLog) <= 50
       /\ rooms'[1].gameLog =
              IF Len(rooms[1].gameLog) = 50
              THEN Tail(rooms[1].gameLog) \o reply'.log
              ELSE rooms[1].gameLog \o reply'.log]_vars

\* C25 witness: the log is full and its oldest entries have been dropped
C25_Witness ==
    /\ Len(rooms[1].gameLog) = 50
    /\ rooms[1].gameLog[1] > 1
    /\ rooms[1].gameLog[50] = reply.log[1]

\* C26: when moveToNextActivePlayer runs on a room in which every participant
\* is packed, currentTurn after the call equals currentTurn before it.
C26_MoveKeepsTurnWhenAllPacked ==
    [][activePlayers(rooms[1]) = {} =>
           rooms'[1].currentTurn = rooms[1].currentTurn]_vars

\* C27: packCards by a participant that is not at currentTurn fails with
\* the not-your-turn error, packed or not; the already-packed error is
\* reported only for a packed participant that is at currentTurn.
C27_PackErrorOrder ==
    [][\A s \in Sockets :
           (/\ packCards(s)
            /\ roomPos(rooms, sockets[s].roomCode) # 0
            /\ findIndexById(rooms[roomPos(rooms, sockets[s].roomCode)].players,
                             sockets[s].playerId) # -1)
           => LET room == rooms[roomPos(rooms, sockets[s].roomCode)]
                  i == findIndexById(room.players, sockets[s].playerId)
              IN  /\ room.currentTurn # i => reply'.err = "PackNotYourTurn"
                  /\ reply'.err = "AlreadyPacked" =>
                         (room.players[i + 1].packed /\ room.currentTurn = i)]_vars

\* C28: changeTurn by the owner succeeds exactly when the target id is a
\* current participant that is not packed; on success currentTurn becomes
\* the target's index and participants, balances, packed flags, pool, round
\* and totalBids are unchanged.
C28_ChangeTurn ==
    [][\A s \in Sockets, p \in IdInputs :
           (/\ changeTurn(s, p)
            /\ roomPos(rooms, sockets[s].roomCode) # 0
            /\ ~notCreator(rooms[roomPos(rooms, sockets[s].roomCode)],
                           sockets[s].playerId))
           => LET r == roomPos(rooms, sockets[s].roomCode)
                  room == rooms[r]
                  ok == \E i \in 1 .. Len(room.players) :
                            room.players[i].id = p /\ ~room.players[i].packed
              IN  /\ reply'.err = "" <=> ok
                  /\ ~ok => rooms' = rooms
                  /\ ok =>
                        /\ Len(rooms') = Len(rooms)
                        /\ \A o \in LiveRooms \ {r} : rooms'[o] = rooms[o]
                        /\ rooms'[r].players[rooms'[r].currentTurn + 1].id = p
                        /\ rooms'[r].players = room.players
                        /\ rooms'[r].pool = room.pool
                        /\ rooms'[r].round = room.round
                        /\ rooms'[r].totalBids = room.totalBids]_vars

\* C28 witness: the owner has handed the turn to the third participant, past
\* a packed second one
C28_Witness ==
    /\ reply.log = <<"turnChanged">>
    /\ \E r \in LiveRooms :
           /\ Len(rooms[r].players) = 3
           /\ rooms[r].currentTurn = 2
           /\ rooms[r].players[2].packed

\* C29: a successful joinRoom appends exactly one participant at the end of
\* the list, with balance = startingBalance, isCreator = false and packed =
\* false, and leaves the participants that were there, their order, balances
\* and packed flags, the owner, pool, round and totalBids unchanged;
\* currentTurn is unchanged unless it pointed at a packed participant.
C29_JoinAppendsOne ==
    [][\A s \in Sockets, n \in Names, c \in Codes :
           (joinRoom(s, n, c) /\ reply'.err = "") =>
               LET r == roomPos(rooms, c)
                   room == rooms[r]
                   last == rooms'[r].players[Len(rooms'[r].players)]
               IN  /\ Len(rooms') = Len(rooms)
                   /\ \A o \in LiveRooms \ {r} : rooms'[o] = rooms[o]
                   /\ Len(rooms'[r].players) = Len(room.players) + 1
                   /\ \A i \in 1 .. Len(room.players) :
                          rooms'[r].players[i] = room.players[i]
                   /\ last.name = n
                   /\ last.socketId = s
                   /\ \A i \in 1 .. Len(room.players) : room.players[i].id # last.id
                   /\ last.balance = room.startingBalance
                   /\ ~last.isCreator
                   /\ ~last.packed
                   /\ rooms'[r].creator = room.creator
                   /\ rooms'[r].startingBalance = room.startingBalance
                   /\ rooms'[r].pool = room.pool
                   /\ rooms'[r].round = room.round
                   /\ rooms'[r].totalBids = room.totalBids
                   /\ ~room.players[room.currentTurn + 1].packed =>
                          rooms'[r].currentTurn = room.currentTurn]_vars

\* C29 witness: a participant has joined a round in which a bid was placed
\* and a balance spent
C29_Witness ==
    /\ reply.log = <<"joined">>
    /\ \E r \in LiveRooms :
           /\ rooms[r].pool > 0
           /\ rooms[r].players[1].balance < rooms[r].startingBalance
           /\ rooms[r].players[Len(rooms[r].players)].balance
                  = rooms[r].startingBalance

\* C30: rejoinRoom resolves the participant by id only: with an id present
\* in the room it succeeds whatever non-empty name is supplied, binds that
\* participant to the requesting connection and changes nothing else in the
\* room (same participants, order, names, balances, packed flags, owner,
\* pool, round, currentTurn).
C30_RejoinById ==
    [][(\/ reply'.log = <<"reconnected">>
        \/ reply'.err \in {"InvalidRejoin", "RejoinRoomNotFound",
                           "RejoinPlayerNotFound"}) =>
       \A c \in Codes, p \in 1 .. MaxIds, s \in Sockets, n \in Names :
           (/\ roomPos(rooms, c) # 0
            /\ findIndexById(rooms[roomPos(rooms, c)].players, p) # -1
            /\ rejoinRoom(s, c, p, n))
           => LET r == roomPos(rooms, c)
                  i == findIndexById(rooms[r].players, p) + 1
              IN  /\ reply'.err = ""
                  /\ rooms'[r].players[i].socketId = s
                  /\ sockets'[s].playerId = p
                  /\ sockets'[s].roomCode = c
                  /\ sameTable(rooms, rooms')
                  /\ \A o \in LiveRooms : \A j \in 1 .. Len(rooms[o].players) :
                         (o # r \/ j # i) =>
                             rooms'[o].players[j].socketId
                                 = rooms[o].players[j].socketId]_vars

\* C30 witness: a connection has rejoined as a participant whose name is not
\* the one it supplied, and another connection was told
C30_Witness ==
    /\ reply.log = <<"reconnected">>
    /\ reply.to # {}
    /\ \E s \in Sockets, r \in LiveRooms :
           \E i \in 1 .. Len(rooms[r].players) :
               /\ rooms[r].players[i].id = sockets[s].playerId
               /\ rooms[r].players[i].socketId = s
               /\ toLowerCase(rooms[r].players[i].name) \notin RejoinNames

\* C31: the timer's staleness test and its removal are one step: when the
\* timer fires, a participant bound to another connection than the one that
\* dropped (a participant that has rebound among them) stays seated, and the
\* timer of a rebound participant changes no room; whoever the timer removes
\* is the participant it was set for, bound at that moment to the dropped,
\* closed connection.
C31_TimerSparesRebound ==
    [][(timers # <<>> /\ timers' = Tail(timers)) =>
           LET t == Head(timers)
           IN  /\ rebound(rooms, t.playerId, t.socketId) =>
                      (rooms' = rooms /\ removedIds' = removedIds)
               /\ \A r \in LiveRooms : \A i \in 1 .. Len(rooms[r].players) :
                      rooms[r].players[i].socketId # t.socketId =>
                          /\ resolves(rooms', rooms[r].players[i].id)
                          /\ rooms[r].players[i].id \notin removedIds'
               /\ \A p \in removedIds' \ removedIds :
                      /\ p = t.playerId
                      /\ ~sockets[t.socketId].connected
                      /\ ~rebound(rooms, p, t.socketId)]_vars

\* C31 witness: the timer of a dropped connection has fired and removed
\* nobody, the participant it was set for having rebound: a participant
\* bound to the closed connection is still seated beside one bound to an
\* open connection
C31_Witness ==
    /\ timers = <<>>
    /\ removedIds = {}
    /\ reply = errorReply("")
    /\ \E s \in Sockets, r \in LiveRooms :
           /\ ~sockets[s].connected
           /\ \E i, j \in 1 .. Len(rooms[r].players) :
                  /\ rooms[r].players[i].socketId = s
                  /\ rooms[r].players[j].socketId # s
                  /\ sockets[rooms[r].players[j].socketId].connected

\* C32: in every live room totalBids is the number of bids accepted in the
\* room since its last settlement, reset or creation; in particular
\* totalBids = 0 implies pool = 0.
C32_TotalBidsCountsBids ==
    \A r \in LiveRooms :
        /\ rooms[r].totalBids = bidCount[rooms[r].code]
        /\ rooms[r].totalBids = 0 => rooms[r].pool = 0

\* C32 witness: two bids have been accepted in the round that followed a
\* settlement
C32_Witness ==
    /\ reply.log = <<"bid">>
    /\ \E r \in LiveRooms :
           /\ rooms[r].round = 2
           /\ rooms[r].totalBids = 2
           /\ bidCount[rooms[r].code] = 2

\* C33: in every live room 0 <= currentTurn < number of participants, so
\* the participant placeBid reads at currentTurn exists.
C33_TurnInRange ==
    \A r \in LiveRooms :
        /\ 0 <= rooms[r].currentTurn
        /\ rooms[r].currentTurn < Len(rooms[r].players)

\* C33 witness: the owner has removed the last participant of the list while
\* it held the turn, and the turn has wrapped to index 0, where the owner sits
\* packed (no other step puts the turn on a packed owner)
C33_Witness ==
    /\ reply.log = <<"removed">>
    /\ \E r \in LiveRooms :
           /\ Len(rooms[r].players) >= 2
           /\ rooms[r].currentTurn = 0
           /\ rooms[r].players[1].packed

\* C34: every placeBid that is accepted is made by a participant whose
\* packed flag is false.
C34_PackedNeverBids ==
    [][\A s \in Sockets, a \in BidInputs :
           (placeBid(s, a) /\ reply'.err = "") =>
               LET room == rooms[roomPos(rooms, sockets[s].roomCode)]
                   i == findIndexById(room.players, sockets[s].playerId) + 1
               IN  ~room.players[i].packed]_vars

\* C35: every live room has at least one participant with packed = FALSE.
C35_SomebodyActive ==
    \A r \in LiveRooms : activePlayers(rooms[r]) # {}

\* the id of the participant that holds the turn
turnHolder(room) == room.players[room.currentTurn + 1].id

\* C36: when leaveRoom or the disconnect timer removes a participant other
\* than the one that holds the turn, the turn stays with the same
\* participant, identified by id.
C36_LeaveKeepsTurnHolder ==
    [][reply'.log \in {<<"left">>, <<"leftTimeout">>} =>
           \A p \in removedIds' \ removedIds :
               \A r \in LiveRooms :
                   (/\ findIndexById(rooms[r].players, p) # -1
                    /\ turnHolder(rooms[r]) # p)
                   => /\ Len(rooms') = Len(rooms)
                      /\ turnHolder(rooms'[r]) = turnHolder(rooms[r])]_vars

\* C37: no two participants, of one room or of two, carry the same
\* connection id.
C37_OneParticipantPerConnection ==
    \A r, q \in LiveRooms :
        \A i \in 1 .. Len(rooms[r].players), j \in 1 .. Len(rooms[q].players) :
            (r # q \/ i # j) =>
                rooms[r].players[i].socketId # rooms[q].players[j].socketId

\* the participant with this id is seated and bound to a closed connection
closedBound(p) ==
    \E r \in LiveRooms : \E i \in 1 .. Len(rooms[r].players) :
        /\ rooms[r].players[i].id = p
        /\ ~sockets[rooms[r].players[i].socketId].connected

\* C38: with timers that fire, a participant bound to a connection that has
\* dropped does not stay so for ever: it is removed from its room, unless a
\* rejoinRoom binds it to another connection.
C38_DroppedEventuallyRemoved ==
    \A p \in 1 .. MaxIds : closedBound(p) ~> ~closedBound(p)

\* the sum of the balances of the first n participants
RECURSIVE balances(_, _)
balances(players, n) ==
    IF n = 0 THEN 0 ELSE players[n].balance + balances(players, n - 1)

\* the chips of a room: every participant's balance, and the pool
chips(room) == balances(room.players, Len(room.players)) + room.pool

\* C39: placeBid, packCards (with or without the automatic settlement),
\* declareWinner, changeTurn and rejoinRoom leave the room's chips, the sum
\* of all balances plus pool, as they were.
C39_ChipsPreserved ==
    [][reply'.log \in {<<"bid">>, <<"packed">>, <<"packed", "autoWon">>,
                       <<"won">>, <<"turnChanged">>, <<"reconnected">>} =>
           /\ Len(rooms') = Len(rooms)
           /\ \A r \in LiveRooms :
                  /\ rooms'[r].code = rooms[r].code
                  /\ Len(rooms'[r].players) = Len(rooms[r].players)
                  /\ chips(rooms'[r]) = chips(rooms[r])]_vars

\* C39 witness: the owner has declared a winner among several participants,
\* and the winner holds the pool on top of what it had
C39_Witness ==
    /\ reply.log = <<"won">>
    /\ \E r \in LiveRooms :
           /\ Len(rooms[r].players) >= 2
           /\ rooms[r].pool = 0
           /\ chips(rooms[r]) >= 2
           /\ \E i \in 1 .. Len(rooms[r].players) :
                  rooms[r].players[i].balance > rooms[r].startingBalance

\* the connections the participants of the room with this code are bound to
connectionsOf(rs, code) ==
    IF roomPos(rs, code) = 0
    THEN {}
    ELSE {rs[roomPos(rs, code)].players[i].socketId :
              i \in 1 .. Len(rs[roomPos(rs, code)].players)}

\* C40: a broadcast of a room reaches only connections of the room's
\* participants, those the broadcasting operation finds or leaves in the
\* room: the connection of a participant removed by an earlier removePlayer
\* or leaveRoom is not among the recipients.
C40_BroadcastToParticipantsOnly ==
    [][reply'.snapshot # <<>> =>
           reply'.to \subseteq
               (connectionsOf(rooms, reply'.snapshot[1].code)
                    \cup connectionsOf(rooms', reply'.snapshot[1].code))]_vars

====
